---- MODULE Spec2Model ----
(***************************************************************************)
(* The two scripts of the repository as state machines:                    *)
(*   extract_annotations.py  walks a VIA project file and prints one line  *)
(*                           per rectangular region;                       *)
(*   extract_urls.py         finds data-src attribute values in an HTML    *)
(*                           page and prints those with an image suffix.   *)
(* One action per statement (or loop iteration) of a script.  Python       *)
(* values read from JSON are tagged records, text is a TLA+ string, and    *)
(* standard output is the sequence of lines printed so far.  Standard      *)
(* output is taken to encode strictly as UTF-8 (the interpreter default).  *)
(***************************************************************************)
EXTENDS Integers, Sequences, FiniteSets, TLC

VARIABLES
    script,       \* which script this run executes
    fileState,    \* what the input path holds: missing, denied, undecodable, invalid, ok
    jsonDoc,      \* the value json.load yields for the file's text (annotations)
    htmlText,     \* the text f.read() yields for the file (urls)
    pc,           \* position of the run in the script
    fileOpen,     \* the handle f is open
    opens,        \* number of successful open() calls so far
    exc,          \* the exception in flight or handled, NoExc when none
    stdout,       \* lines printed so far
    data,         \* extract_annotations.py: data
    img_metadata, \* extract_annotations.py: img_metadata
    annotations,  \* extract_annotations.py: annotations
    img_i,        \* index of the next item of img_metadata.items()
    filename,     \* extract_annotations.py: filename of the current image
    regions,      \* the elements the iterator over regions yields
    region_i,     \* index of the next element of regions
    ann_i,        \* index of the next element of annotations to print
    html,         \* extract_urls.py: html
    urls,         \* extract_urls.py: urls
    url_i         \* index of the next element of urls

vars == <<script, fileState, jsonDoc, htmlText, pc, fileOpen, opens, exc, stdout,
          data, img_metadata, annotations, img_i, filename, regions, region_i,
          ann_i, html, urls, url_i>>

annVars == <<data, img_metadata, annotations, img_i, filename, regions, region_i, ann_i>>
urlVars == <<html, urls, url_i>>
inputVars == <<script, fileState, jsonDoc, htmlText>>

(***************************************************************************)
(* Bounds of the explored inputs.                                          *)
(***************************************************************************)
MaxImages == 2
MaxRegions == 2
MaxAttrs == 2
MaxTokens == 4

(***************************************************************************)
(* Python values as json.load builds them.  A dict keeps insertion order:  *)
(* k is the sequence of its keys, v the sequence of their values.          *)
(***************************************************************************)
JNull == [t |-> "NoneType"]
JNum(n) == [t |-> "int", n |-> n]
JStr(s) == [t |-> "str", s |-> s]
JList(l) == [t |-> "list", l |-> l]
JDict(keys, vals) == [t |-> "dict", k |-> keys, v |-> vals]
EmptyDict == JDict(<<>>, <<>>)
EmptyList == JList(<<>>)

HasKey(d, key) == \E i \in 1..Len(d.k) : d.k[i] = key

\* dict.get(key) with the default argument left out
DictGet_NoDefault(d, key, default) ==
    IF HasKey(d, key) THEN d.v[CHOOSE i \in 1..Len(d.k) : d.k[i] = key] ELSE JNull

\* dict.get(key, default)
DictGet(d, key, default) ==
    IF HasKey(d, key) THEN d.v[CHOOSE i \in 1..Len(d.k) : d.k[i] = key] ELSE default

\* Only a dict has the attributes get and items.
HasAttr(v, attr) == v.t = "dict" /\ attr \in {"get", "items"}

\* The elements iter(v) yields; a dict yields its keys, a str its characters.
IsIterable(v) == v.t \in {"list", "dict", "str"}

IterItems(v) ==
    CASE v.t = "list" -> v.l
      [] v.t = "dict" -> [i \in 1..Len(v.k) |-> JStr(v.k[i])]
      [] v.t = "str" -> [i \in 1..Len(v.s) |-> JStr(SubSeq(v.s, i, i))]
      [] OTHER -> <<>>

(***************************************************************************)
(* Exceptions: the class raised, its message, and the source line that     *)
(* raised it.  Parent is the class hierarchy the except clauses match on.  *)
(***************************************************************************)
NoExc == [type |-> "none", msg |-> "", line |-> 0]
Raise(type, msg, line) == [type |-> type, msg |-> msg, line |-> line]

Parent(cls) ==
    CASE cls = "FileNotFoundError" -> "OSError"
      [] cls = "PermissionError" -> "OSError"
      [] cls = "OSError" -> "Exception"
      [] cls = "JSONDecodeError" -> "ValueError"
      [] cls = "UnicodeDecodeError" -> "UnicodeError"
      [] cls = "UnicodeEncodeError" -> "UnicodeError"
      [] cls = "UnicodeError" -> "ValueError"
      [] cls = "ValueError" -> "Exception"
      [] cls = "AttributeError" -> "Exception"
      [] cls = "TypeError" -> "Exception"
      [] OTHER -> "BaseException"

RECURSIVE IsInstance(_, _)
IsInstance(cls, of) ==
    IF cls = of THEN TRUE
    ELSE IF cls = "BaseException" THEN FALSE
    ELSE IsInstance(Parent(cls), of)

AttributeErrorMsg(v, attr) == "'" \o v.t \o "' object has no attribute '" \o attr \o "'"
TypeErrorMsg(v) == "'" \o v.t \o "' object is not iterable"

(***************************************************************************)
(* extract_annotations.py: the input documents explored.                   *)
(***************************************************************************)
file_path == "C:\\Users\\ZhanboLiu\\Downloads\\Newcode\\mosaic-blur-app\\dataset\\images\\via_project_15Jul2025_12h59m.json"

\* A str holding a lone surrogate (JSON "\ud800"), which strict UTF-8 cannot encode.
LoneSurrogate == "<U+D800>"
Encodable(s) == s # LoneSurrogate

SeqsUpTo(S, n) == UNION {[1..m -> S] : m \in 0..n}

CoordKeys == <<"x", "y", "width", "height">>
CoordSet == {"x", "y", "width", "height"}
CoordValue(key, base) ==
    CASE key = "x" -> JNum(base + 1)
      [] key = "y" -> JNum(base + 2)
      [] key = "width" -> JNum(base + 3)
      [] key = "height" -> JNum(base + 4)

\* shape_attributes with the given name ("" for none) and the coordinates in present
ShapeAttrs(name, present, base) ==
    LET In(key) == key \in present
        cs == SelectSeq(CoordKeys, In)
    IN  JDict((IF name = "" THEN <<>> ELSE <<"name">>) \o cs,
              (IF name = "" THEN <<>> ELSE <<JStr(name)>>)
                  \o [i \in 1..Len(cs) |-> CoordValue(cs[i], base)])

Region(sa) == JDict(<<"shape_attributes", "region_attributes">>, <<sa, EmptyDict>>)
RectA == Region(ShapeAttrs("rect", CoordSet, 0))
RectB == Region(ShapeAttrs("rect", CoordSet, 4))
Circle == Region(ShapeAttrs("circle", CoordSet, 10))
RegionNoShape == JDict(<<"region_attributes">>, <<EmptyDict>>)
RegionNullShape == Region(JNull)
RegionNotDict == JStr("rect")

\* An image record; filename and regions are given as a sequence of zero or one value.
ImgInfo(fn, regs) ==
    JDict((IF fn = <<>> THEN <<>> ELSE <<"filename">>) \o <<"size">>
              \o (IF regs = <<>> THEN <<>> ELSE <<"regions">>),
          fn \o <<JNum(1)>> \o regs)

ImgId(i) == "img" \o ToString(i)
Meta(infos) == JDict([i \in 1..Len(infos) |-> ImgId(i)], infos)
Project(meta) == JDict(<<"_via_settings", "_via_img_metadata">>, <<EmptyDict, meta>>)
ProjectNoMeta == JDict(<<"_via_settings">>, <<EmptyDict>>)

\* Up to MaxImages images of up to MaxRegions regions: a rect, another shape, a non-dict.
StructRegions == {RectA, Circle, RegionNotDict}
DocsStructure ==
    {Project(Meta(infos)) :
        infos \in SeqsUpTo({ImgInfo(<<JStr("a.jpg")>>, <<JList(rs)>>) :
                                rs \in SeqsUpTo(StructRegions, MaxRegions)}, MaxImages)}

\* One image, every combination of present and absent sub-fields.
FieldRegions ==
    {RegionNotDict, RegionNoShape, RegionNullShape}
        \cup {Region(ShapeAttrs(n, P, 0)) : n \in {"rect", "circle", ""}, P \in SUBSET CoordSet}
FieldFilenames == {<<>>, <<JStr("a.jpg")>>, <<JStr(LoneSurrogate)>>}
FieldRegionValues ==
    {<<>>, <<JNum(0)>>, <<JDict(<<"0">>, <<RectA>>)>>}
        \cup {<<JList(rs)>> : rs \in SeqsUpTo(FieldRegions, 1)}
DocsFields ==
    {Project(Meta(<<ImgInfo(fn, regs)>>)) : fn \in FieldFilenames, regs \in FieldRegionValues}
        \cup {Project(Meta(<<JStr("a.jpg")>>))}

\* Two images with one or two rects each, filenames and boxes differing.
OrderInfos ==
    {ImgInfo(<<JStr(f)>>, <<JList(rs)>>) :
        f \in {"a.jpg", "b.jpg", LoneSurrogate},
        rs \in SeqsUpTo({RectA, RectB}, 2) \ {<<>>}}
DocsOrder == {Project(Meta(<<a, b>>)) : a \in OrderInfos, b \in OrderInfos}

\* Documents whose top level or _via_img_metadata is not what the walk expects.
DocsTop == {EmptyList, ProjectNoMeta, Project(EmptyList), Project(JNull)}

Documents == DocsStructure \cup DocsFields \cup DocsOrder \cup DocsTop

FileStates == {"missing", "denied", "undecodable", "invalid", "ok"}

InitRun ==
    /\ pc = "open"
    /\ fileOpen = FALSE
    /\ opens = 0
    /\ exc = NoExc
    /\ stdout = <<>>
    /\ data = JNull
    /\ img_metadata = JNull
    /\ annotations = <<>>
    /\ img_i = 0
    /\ filename = JNull
    /\ regions = <<>>
    /\ region_i = 0
    /\ ann_i = 0
    /\ html = ""
    /\ urls = <<>>
    /\ url_i = 0

InitAnnotations ==
    /\ script = "extract_annotations"
    /\ fileState \in FileStates
    /\ jsonDoc \in (IF fileState = "ok" THEN Documents ELSE {JNull})
    /\ htmlText = ""
    /\ InitRun

(***************************************************************************)
(* extract_annotations.py: the statements.                                 *)
(***************************************************************************)
IsAnn == script = "extract_annotations"

\* repr(path) as an OSError message shows the file name: quoted, backslashes doubled
RECURSIVE Escaped(_)
Escaped(s) ==
    IF s = "" THEN ""
    ELSE (IF Head(s) = "\\" THEN "\\\\" ELSE Head(s)) \o Escaped(Tail(s))
PathRepr(path) == "'" \o Escaped(path) \o "'"

\* open(path, 'r', encoding='utf-8'): the exception it raises, NoExc when it succeeds
OpenOutcome(state, path, line) ==
    CASE state = "missing" ->
            Raise("FileNotFoundError",
                  "[Errno 2] No such file or directory: " \o PathRepr(path), line)
      [] state = "denied" ->
            Raise("PermissionError", "[Errno 13] Permission denied: " \o PathRepr(path), line)
      [] OTHER -> NoExc

\* json.load(f): f.read() decodes the bytes as UTF-8, then the text is parsed
LoadOutcome(state, line) ==
    CASE state = "undecodable" ->
            Raise("UnicodeDecodeError",
                  "'utf-8' codec can't decode byte 0xff in position 0: invalid start byte", line)
      [] state = "invalid" -> Raise("JSONDecodeError", "Expecting value: line 1 column 1 (char 0)", line)
      [] OTHER -> NoExc

\* line 6: with open(...) as f
AnnOpen ==
    /\ IsAnn /\ pc = "open"
    /\ exc' = OpenOutcome(fileState, file_path, 6)
    /\ IF exc' = NoExc
       THEN fileOpen' = TRUE /\ opens' = opens + 1 /\ pc' = "load"
       ELSE fileOpen' = fileOpen /\ opens' = opens /\ pc' = "except"
    /\ UNCHANGED <<inputVars, stdout, annVars, urlVars>>

\* line 7: data = json.load(f)
AnnLoad ==
    /\ IsAnn /\ pc = "load"
    /\ exc' = LoadOutcome(fileState, 7)
    /\ data' = IF exc' = NoExc THEN jsonDoc ELSE data
    /\ pc' = "exit_with"
    /\ UNCHANGED <<inputVars, fileOpen, opens, stdout, img_metadata, annotations, img_i,
                   filename, regions, region_i, ann_i, urlVars>>

\* The handle were f.close() to follow the body instead of a with block: skipped on a raise
ExitWith_CloseAfterBody(open, raised) == IF raised THEN open ELSE FALSE

\* The handle after the with block's __exit__: f.close() runs whether the body raised or not.
ExitWith(open, raised) == FALSE

\* leaving the with block of lines 6-7
AnnExitWith ==
    /\ IsAnn /\ pc = "exit_with"
    /\ fileOpen' = ExitWith(fileOpen, exc # NoExc)
    /\ pc' = IF exc = NoExc THEN "get_metadata" ELSE "except"
    /\ UNCHANGED <<inputVars, opens, exc, stdout, annVars, urlVars>>

\* line 9: img_metadata = data.get('_via_img_metadata', {})
AnnGetMetadata ==
    /\ IsAnn /\ pc = "get_metadata"
    /\ IF HasAttr(data, "get")
       THEN /\ img_metadata' = DictGet(data, "_via_img_metadata", EmptyDict)
            /\ pc' = "items"
            /\ exc' = exc
       ELSE /\ exc' = Raise("AttributeError", AttributeErrorMsg(data, "get"), 9)
            /\ pc' = "except"
            /\ img_metadata' = img_metadata
    /\ UNCHANGED <<inputVars, fileOpen, opens, stdout, data, annotations, img_i,
                   filename, regions, region_i, ann_i, urlVars>>

\* lines 11-12: annotations = []; the for statement evaluates img_metadata.items()
AnnItems ==
    /\ IsAnn /\ pc = "items"
    /\ annotations' = <<>>
    /\ IF HasAttr(img_metadata, "items")
       THEN img_i' = 1 /\ pc' = "for_img" /\ exc' = exc
       ELSE /\ exc' = Raise("AttributeError", AttributeErrorMsg(img_metadata, "items"), 12)
            /\ pc' = "except"
            /\ img_i' = img_i
    /\ UNCHANGED <<inputVars, fileOpen, opens, stdout, data, img_metadata,
                   filename, regions, region_i, ann_i, urlVars>>

\* lines 12-14 and the iter() of line 16, for the next image; line 28 once none is left
AnnForImg ==
    /\ IsAnn /\ pc = "for_img"
    /\ IF img_i > Len(img_metadata.v)
       THEN /\ pc' = "output"
            /\ UNCHANGED <<exc, filename, regions, region_i, img_i>>
       ELSE LET img_info == img_metadata.v[img_i]
                rs == DictGet(img_info, "regions", EmptyList)
            IN  IF ~HasAttr(img_info, "get")
                THEN /\ exc' = Raise("AttributeError", AttributeErrorMsg(img_info, "get"), 13)
                     /\ pc' = "except"
                     /\ UNCHANGED <<filename, regions, region_i, img_i>>
                ELSE /\ filename' = DictGet(img_info, "filename", JNull)
                     /\ img_i' = img_i + 1
                     /\ IF IsIterable(rs)
                        THEN /\ regions' = IterItems(rs)
                             /\ region_i' = 1
                             /\ pc' = "for_region"
                             /\ exc' = exc
                        ELSE /\ exc' = Raise("TypeError", TypeErrorMsg(rs), 16)
                             /\ pc' = "except"
                             /\ UNCHANGED <<regions, region_i>>
    /\ UNCHANGED <<inputVars, fileOpen, opens, stdout, data, img_metadata, annotations,
                   ann_i, urlVars>>

\* line 18 testing that the shape has a name instead of comparing it
IsRect_AnyName(shape_attributes) == DictGet(shape_attributes, "name", JNull) # JNull

\* line 18: shape_attributes.get('name') == 'rect'
IsRect(shape_attributes) == DictGet(shape_attributes, "name", JNull) = JStr("rect")

\* lines 19-22 and 25: [x, y, width, height]
BBox(shape_attributes) ==
    <<DictGet(shape_attributes, "x", JNull), DictGet(shape_attributes, "y", JNull),
      DictGet(shape_attributes, "width", JNull), DictGet(shape_attributes, "height", JNull)>>

\* lines 23-26: the record appended for a rect region
Annotation(fn, shape_attributes) == [filename |-> fn, bbox |-> BBox(shape_attributes)]

\* lines 23-26 with annotations.insert(0, ...)
Append_Front(anns, ann) == <<ann>> \o anns

\* lines 23-26: annotations.append(...)
Append_(anns, ann) == Append(anns, ann)

\* lines 16-26 for the next region; back to line 12 once none is left
AnnForRegion ==
    /\ IsAnn /\ pc = "for_region"
    /\ IF region_i > Len(regions)
       THEN /\ pc' = "for_img"
            /\ UNCHANGED <<exc, annotations, region_i>>
       ELSE LET region == regions[region_i]
                shape_attributes == DictGet(region, "shape_attributes", EmptyDict)
            IN  IF ~HasAttr(region, "get")
                THEN /\ exc' = Raise("AttributeError", AttributeErrorMsg(region, "get"), 17)
                     /\ pc' = "except"
                     /\ UNCHANGED <<annotations, region_i>>
                ELSE IF ~HasAttr(shape_attributes, "get")
                THEN /\ exc' = Raise("AttributeError",
                                     AttributeErrorMsg(shape_attributes, "get"), 18)
                     /\ pc' = "except"
                     /\ UNCHANGED <<annotations, region_i>>
                ELSE /\ annotations' =
                            IF IsRect(shape_attributes)
                            THEN Append_(annotations, Annotation(filename, shape_attributes))
                            ELSE annotations
                     /\ region_i' = region_i + 1
                     /\ pc' = "for_region"
                     /\ exc' = exc
    /\ UNCHANGED <<inputVars, fileOpen, opens, stdout, data, img_metadata, img_i,
                   filename, regions, ann_i, urlVars>>

\* str(v), as an f-string field formats v
Str(v) ==
    CASE v.t = "NoneType" -> "None"
      [] v.t = "str" -> v.s
      [] v.t = "int" -> ToString(v.n)
      [] OTHER -> "<" \o v.t \o ">"

\* repr(v), as str(list) formats each element
Repr(v) ==
    CASE v.t = "NoneType" -> "None"
      [] v.t = "str" -> "'" \o v.s \o "'"
      [] v.t = "int" -> ToString(v.n)
      [] OTHER -> "<" \o v.t \o ">"

\* str(bbox) of a four-element list
ListStr(bbox) ==
    "[" \o Repr(bbox[1]) \o ", " \o Repr(bbox[2]) \o ", " \o Repr(bbox[3]) \o ", "
        \o Repr(bbox[4]) \o "]"

HeaderLine == "Extracted Annotations:"
NoAnnotationsLine == "No annotations found in the VIA project file."
\* line 31 with the filename and the box swapped
RecordLine_Swapped(ann) == "  Filename: " \o ListStr(ann.bbox) \o ", BBox: " \o Str(ann.filename)

\* line 31: f"  Filename: {ann['filename']}, BBox: {ann['bbox']}"
RecordLine(ann) == "  Filename: " \o Str(ann.filename) \o ", BBox: " \o ListStr(ann.bbox)
FileNotFoundLine == "Error: File not found at " \o file_path
MalformedLine == "Error: Could not decode JSON from " \o file_path \o ". Invalid JSON format."
UnexpectedLine(e) == "An unexpected error occurred: " \o e.msg

\* print(line) to a strict UTF-8 stdout: the line can be written
Printable(v) == v.t # "str" \/ Encodable(v.s)

\* lines 28-29 and 32-33
AnnOutput ==
    /\ IsAnn /\ pc = "output"
    /\ IF annotations # <<>>
       THEN stdout' = Append(stdout, HeaderLine) /\ ann_i' = 1 /\ pc' = "print_ann"
       ELSE stdout' = Append(stdout, NoAnnotationsLine) /\ ann_i' = ann_i /\ pc' = "done"
    /\ UNCHANGED <<inputVars, fileOpen, opens, exc, data, img_metadata, annotations, img_i,
                   filename, regions, region_i, urlVars>>

\* lines 30-31 for the next annotation
AnnPrint ==
    /\ IsAnn /\ pc = "print_ann"
    /\ IF ann_i > Len(annotations)
       THEN pc' = "done" /\ UNCHANGED <<stdout, exc, ann_i>>
       ELSE LET ann == annotations[ann_i]
            IN  IF Printable(ann.filename)
                THEN /\ stdout' = Append(stdout, RecordLine(ann))
                     /\ ann_i' = ann_i + 1
                     /\ pc' = "print_ann"
                     /\ exc' = exc
                ELSE /\ exc' = Raise("UnicodeEncodeError",
                                     "'utf-8' codec can't encode character '\\ud800' in position 12: surrogates not allowed",
                                     31)
                     /\ pc' = "except"
                     /\ UNCHANGED <<stdout, ann_i>>
    /\ UNCHANGED <<inputVars, fileOpen, opens, data, img_metadata, annotations, img_i,
                   filename, regions, region_i, urlVars>>

\* lines 35-40 with the generic clause placed first
Handler_GenericFirst(e) ==
    IF IsInstance(e.type, "Exception") THEN "UnexpectedError"
    ELSE IF IsInstance(e.type, "FileNotFoundError") THEN "FileNotFound"
    ELSE IF IsInstance(e.type, "JSONDecodeError") THEN "MalformedInput"
    ELSE "uncaught"

\* lines 35-40: the first except clause whose class the exception is an instance of
Handler(e) ==
    IF IsInstance(e.type, "FileNotFoundError") THEN "FileNotFound"
    ELSE IF IsInstance(e.type, "JSONDecodeError") THEN "MalformedInput"
    ELSE IF IsInstance(e.type, "Exception") THEN "UnexpectedError"
    ELSE "uncaught"

ErrorLine(e) ==
    CASE Handler(e) = "FileNotFound" -> <<FileNotFoundLine>>
      [] Handler(e) = "MalformedInput" -> <<MalformedLine>>
      [] Handler(e) = "UnexpectedError" -> <<UnexpectedLine(e)>>
      [] OTHER -> <<>>

\* lines 35-40 printing the annotations gathered before the fault as well
ExceptOutput_Salvage(out, anns, e) ==
    out \o [k \in 1..Len(anns) |-> RecordLine(anns[k])] \o ErrorLine(e)

\* lines 35-40: what the handlers leave on stdout
ExceptOutput(out, anns, e) == out \o ErrorLine(e)

\* lines 35-40
AnnExcept ==
    /\ IsAnn /\ pc = "except"
    /\ stdout' = ExceptOutput(stdout, annotations, exc)
    /\ pc' = "done"
    /\ UNCHANGED <<inputVars, fileOpen, opens, exc, annVars, urlVars>>

NextAnnotations ==
    \/ AnnOpen
    \/ AnnLoad
    \/ AnnExitWith
    \/ AnnGetMetadata
    \/ AnnItems
    \/ AnnForImg
    \/ AnnForRegion
    \/ AnnOutput
    \/ AnnPrint
    \/ AnnExcept

SpecAnnotations == InitAnnotations /\ [][NextAnnotations]_vars

(***************************************************************************)
(* extract_urls.py: the pattern match and the suffix test.                 *)
(***************************************************************************)
Ch(s, i) == SubSeq(s, i, i)

StartsAt(s, i, lit) == i + Len(lit) - 1 <= Len(s) /\ SubSeq(s, i, i + Len(lit) - 1) = lit

Min(S) == CHOOSE m \in S : \A n \in S : m <= n

AttrPrefix == "data-src="
\* the character class ["\'] that opens the value
OpenQuotes == {"\"", "'"}
\* the character class ["\'] that closes the value opened by open
CloseQuotes(open) == {"\"", "'"}
\* what . matches: any character but a newline
Dot(c) == c # "\n"

\* The index of the closing quote of the match of data-src=["\'](.*?)["\'] that
\* starts at i, 0 when the pattern does not match there.  The lazy group takes the
\* fewest characters that let the closing class match.
MatchEnd(s, i) ==
    LET q == i + Len(AttrPrefix)
        ends == {e \in (q + 1)..Len(s) :
                    /\ Ch(s, e) \in CloseQuotes(Ch(s, q))
                    /\ \A m \in (q + 1)..(e - 1) : Dot(Ch(s, m))}
    IN  IF StartsAt(s, i, AttrPrefix) /\ q <= Len(s) /\ Ch(s, q) \in OpenQuotes /\ ends # {}
        THEN Min(ends)
        ELSE 0

\* re.findall scanning from index i: leftmost match first, then on from its end
RECURSIVE FindAllFrom(_, _)
FindAllFrom(s, i) ==
    IF i > Len(s) THEN <<>>
    ELSE LET e == MatchEnd(s, i)
         IN  IF e = 0 THEN FindAllFrom(s, i + 1)
             ELSE <<SubSeq(s, i + Len(AttrPrefix) + 1, e - 1)>> \o FindAllFrom(s, e + 1)

\* line 7: re.findall(r'data-src=["\'](.*?)["\']', html)
FindAll(s) == FindAllFrom(s, 1)

Suffixes == <<".jpg", ".jpeg", ".png">>

\* str.endswith(suffix)
EndsWith(s, suffix) ==
    Len(s) >= Len(suffix) /\ SubSeq(s, Len(s) - Len(suffix) + 1, Len(s)) = suffix

\* line 10 testing that a suffix occurs anywhere in the url
EndsWithAny_Contains(url) ==
    \E k \in 1..Len(Suffixes) : \E i \in 1..Len(url) : StartsAt(url, i, Suffixes[k])

\* line 10: url.endswith(('.jpg', '.jpeg', '.png'))
EndsWithAny(url) == \E k \in 1..Len(Suffixes) : EndsWith(url, Suffixes[k])

(***************************************************************************)
(* extract_urls.py: the input pages explored.                              *)
(***************************************************************************)
RECURSIVE Concat(_)
Concat(ss) == IF ss = <<>> THEN "" ELSE Head(ss) \o Concat(Tail(ss))

\* Well-formed pages: up to MaxAttrs img tags, either quote, these values.
UrlValues ==
    {"a.jpg", "b.jpeg", "c.png", "c.PNG", "d.JPG", "b.gif", ".jpg", "jpg", "a.jpg?w=1",
     "it's.png", ""}
ImgTag(q, value) == "<img data-src=" \o q \o value \o q \o ">"
ImgTags == {ImgTag(q, value) : q \in OpenQuotes, value \in UrlValues}
PagesTags == {Concat(ts) : ts \in SeqsUpTo(ImgTags, MaxAttrs)}

\* Arbitrary text: up to MaxTokens of these pieces in any order.
Tokens == {"data-src=", "\"", "'", "a.png", "\n", "data-"}
PagesTokens == {Concat(ts) : ts \in SeqsUpTo(Tokens, MaxTokens)}

\* The page of the specification's example.
PageExample == "<img data-src=\"a.jpg\"><img data-src='b.gif'><img data-src=\"c.PNG\">"

Pages == PagesTags \cup PagesTokens \cup {PageExample}

InitUrls ==
    /\ script = "extract_urls"
    /\ fileState \in FileStates \ {"invalid"}
    /\ htmlText \in (IF fileState = "ok" THEN Pages ELSE {""})
    /\ jsonDoc = JNull
    /\ InitRun

(***************************************************************************)
(* extract_urls.py: the statements.                                        *)
(***************************************************************************)
IsUrl == script = "extract_urls"

\* f.read(): the bytes are decoded as UTF-8
ReadOutcome(state, line) ==
    CASE state = "undecodable" ->
            Raise("UnicodeDecodeError",
                  "'utf-8' codec can't decode byte 0xff in position 0: invalid start byte", line)
      [] OTHER -> NoExc

\* line 4: with open('carsales.html', 'r', encoding='utf-8') as f
UrlOpen ==
    /\ IsUrl /\ pc = "open"
    /\ exc' = OpenOutcome(fileState, "carsales.html", 4)
    /\ IF exc' = NoExc
       THEN fileOpen' = TRUE /\ opens' = opens + 1 /\ pc' = "read"
       ELSE fileOpen' = fileOpen /\ opens' = opens /\ pc' = "except"
    /\ UNCHANGED <<inputVars, stdout, annVars, urlVars>>

\* line 5: html = f.read()
UrlRead ==
    /\ IsUrl /\ pc = "read"
    /\ exc' = ReadOutcome(fileState, 5)
    /\ html' = IF exc' = NoExc THEN htmlText ELSE html
    /\ pc' = "exit_with"
    /\ UNCHANGED <<inputVars, fileOpen, opens, stdout, annVars, urls, url_i>>

\* leaving the with block of lines 4-5
UrlExitWith ==
    /\ IsUrl /\ pc = "exit_with"
    /\ fileOpen' = ExitWith(fileOpen, exc # NoExc)
    /\ pc' = IF exc = NoExc THEN "findall" ELSE "except"
    /\ UNCHANGED <<inputVars, opens, exc, stdout, annVars, urlVars>>

\* line 7: urls = re.findall(...)
UrlFindAll ==
    /\ IsUrl /\ pc = "findall"
    /\ urls' = FindAll(html)
    /\ url_i' = 1
    /\ pc' = "for_url"
    /\ UNCHANGED <<inputVars, fileOpen, opens, exc, stdout, annVars, html>>

\* lines 9-11 for the next url
UrlForUrl ==
    /\ IsUrl /\ pc = "for_url"
    /\ IF url_i > Len(urls)
       THEN pc' = "done" /\ UNCHANGED <<stdout, url_i>>
       ELSE /\ stdout' = IF EndsWithAny(urls[url_i]) THEN Append(stdout, urls[url_i])
                         ELSE stdout
            /\ url_i' = url_i + 1
            /\ pc' = "for_url"
    /\ UNCHANGED <<inputVars, fileOpen, opens, exc, annVars, html, urls>>

\* line 13: f"An error occurred: {e}"
UrlErrorLine(e) == "An error occurred: " \o e.msg

\* lines 12-13 with the handler body replaced by pass
UrlExceptOutput_Silent(out, e) == out

\* lines 12-13: what the handler leaves on stdout
UrlExceptOutput(out, e) ==
    IF IsInstance(e.type, "Exception") THEN Append(out, UrlErrorLine(e)) ELSE out

\* lines 12-13: except Exception as e
UrlExcept ==
    /\ IsUrl /\ pc = "except"
    /\ stdout' = UrlExceptOutput(stdout, exc)
    /\ pc' = "done"
    /\ UNCHANGED <<inputVars, fileOpen, opens, exc, annVars, urlVars>>

NextUrls ==
    \/ UrlOpen
    \/ UrlRead
    \/ UrlExitWith
    \/ UrlFindAll
    \/ UrlForUrl
    \/ UrlExcept

SpecUrls == InitUrls /\ [][NextUrls]_vars

(***************************************************************************)
(* Either script.                                                          *)
(***************************************************************************)
Init == InitAnnotations \/ InitUrls

Next ==
    \/ NextAnnotations
    \/ NextUrls

Spec == Init /\ [][Next]_vars

(***************************************************************************)
(* Properties of extract_annotations.py, checked under SpecAnnotations.    *)
(***************************************************************************)
Done == pc = "done"
Parsed == IsAnn /\ fileState = "ok"
\* an exception raised by the walk over images and regions (lines 9-26)
WalkFault == exc # NoExc /\ exc.line \in 9..26
\* an exception raised while printing the records (lines 28-33)
PrintFault == exc # NoExc /\ exc.line \in 28..33

RECURSIVE Flatten(_)
Flatten(ss) == IF ss = <<>> THEN <<>> ELSE Head(ss) \o Flatten(Tail(ss))

\* The value stored under key in a mapping, JNull when v is no mapping or lacks the key.
Field(v, key) ==
    IF v.t = "dict" /\ (\E i \in 1..Len(v.k) : v.k[i] = key)
    THEN v.v[CHOOSE i \in 1..Len(v.k) : v.k[i] = key]
    ELSE JNull
Present(v, key) == v.t = "dict" /\ (\E i \in 1..Len(v.k) : v.k[i] = key)

\* The _via_img_metadata entries of a document, in insertion order.
Entries(doc) ==
    IF Field(doc, "_via_img_metadata").t = "dict" THEN Field(doc, "_via_img_metadata").v
    ELSE <<>>
\* The regions of an image entry, in sequence order.
RegionsOf(info) == IF Field(info, "regions").t = "list" THEN Field(info, "regions").l ELSE <<>>
IsRectRegion(region) == Field(Field(region, "shape_attributes"), "name") = JStr("rect")
\* The rect regions of a document in document order, each with the image that holds it.
RectsOfImage(info) ==
    LET rects == SelectSeq(RegionsOf(info), IsRectRegion)
    IN  [j \in 1..Len(rects) |-> [image |-> info, shape |-> Field(rects[j], "shape_attributes")]]
RectSources(doc) == Flatten([i \in 1..Len(Entries(doc)) |-> RectsOfImage(Entries(doc)[i])])
\* The reference sequence of records of a document.
Reference(doc) ==
    [n \in 1..Len(RectSources(doc)) |->
        [filename |-> Field(RectSources(doc)[n].image, "filename"),
         bbox |-> <<Field(RectSources(doc)[n].shape, "x"), Field(RectSources(doc)[n].shape, "y"),
                    Field(RectSources(doc)[n].shape, "width"),
                    Field(RectSources(doc)[n].shape, "height")>>]]

\* C1 as stated: for every successfully parsed document the records built equal the
\* reference sequence: one record per rect region, in document order, every other
\* region skipped.
C1_RecordsEqualReference == (Parsed /\ Done) => annotations = Reference(jsonDoc)

\* C1 amended: for every successfully parsed document on which the walk over images
\* and regions raises no exception, the records built equal the reference sequence:
\* one record per rect region in entry order then region order, carrying the image's
\* filename and the region's x, y, width, height, nothing merged or reordered.
C1_RecordsEqualReferenceUnlessFault ==
    (Parsed /\ Done /\ ~WalkFault) => annotations = Reference(jsonDoc)

C1_Witness ==
    /\ Parsed /\ Done /\ exc = NoExc
    /\ jsonDoc = Project(Meta(<<ImgInfo(<<JStr("b.jpg")>>, <<JList(<<RectB, RectA>>)>>),
                                ImgInfo(<<JStr("a.jpg")>>, <<JList(<<RectA, RectA>>)>>)>>))
    /\ Len(annotations) = 4
    /\ annotations[1] = [filename |-> JStr("b.jpg"),
                         bbox |-> <<JNum(5), JNum(6), JNum(7), JNum(8)>>]

\* Every value the walk reads is of the type it expects; sub-fields may be absent.
WellTyped(doc) ==
    /\ doc.t = "dict"
    /\ Present(doc, "_via_img_metadata") => Field(doc, "_via_img_metadata").t = "dict"
    /\ \A i \in 1..Len(Entries(doc)) :
        LET info == Entries(doc)[i]
        IN  /\ info.t = "dict"
            /\ Present(info, "regions") => Field(info, "regions").t = "list"
            /\ Present(info, "filename") => Printable(Field(info, "filename"))
            /\ \A j \in 1..Len(RegionsOf(info)) :
                LET region == RegionsOf(info)[j]
                IN  /\ region.t = "dict"
                    /\ Present(region, "shape_attributes")
                            => Field(region, "shape_attributes").t = "dict"

\* the n-th record keeps the value of key when the source has it and holds null when not
KeepsOrNull(got, source, key) ==
    IF Present(source, key) THEN got = source.v[CHOOSE i \in 1..Len(source.k) : source.k[i] = key]
    ELSE got = JNull

\* C2: in a successfully parsed document whose values are otherwise well typed, an
\* absent filename, regions, x, y, width or height never leads to an error outcome:
\* an absent filename or coordinate is null in the emitted record, the record's
\* other fields keep their source values, and an image without regions yields no
\* record.
C2_AbsentFieldsAreNotErrors ==
    (Parsed /\ Done /\ WellTyped(jsonDoc)) =>
        /\ exc = NoExc
        /\ \A n \in 1..Len(stdout) : stdout[n] # UnexpectedLine(exc)
        /\ Len(annotations) = Len(RectSources(jsonDoc))
        /\ \A n \in 1..Len(annotations) :
            LET src == RectSources(jsonDoc)[n]
            IN  /\ KeepsOrNull(annotations[n].filename, src.image, "filename")
                /\ KeepsOrNull(annotations[n].bbox[1], src.shape, "x")
                /\ KeepsOrNull(annotations[n].bbox[2], src.shape, "y")
                /\ KeepsOrNull(annotations[n].bbox[3], src.shape, "width")
                /\ KeepsOrNull(annotations[n].bbox[4], src.shape, "height")

C2_Witness ==
    /\ Parsed /\ Done /\ exc = NoExc
    /\ jsonDoc = Project(Meta(<<ImgInfo(<<>>, <<JList(<<Region(ShapeAttrs("rect",
                                    {"x", "y", "height"}, 0))>>)>>)>>))
    /\ annotations = <<[filename |-> JNull, bbox |-> <<JNum(1), JNum(2), JNull, JNum(4)>>]>>
    /\ stdout = <<HeaderLine, "  Filename: None, BBox: [1, 2, None, 4]">>

\* the three shapes of document C3 names
EmptyMetadata(doc) == doc.t = "dict" /\ Field(doc, "_via_img_metadata") = EmptyDict
NoMetadataField(doc) == doc.t = "dict" /\ ~Present(doc, "_via_img_metadata")
NoRectRegion(doc) == RectSources(doc) = <<>>
NoAnnotationsOutcome == annotations = <<>> /\ stdout = <<NoAnnotationsLine>> /\ exc = NoExc

\* C3 as stated: a parsed document with an empty _via_img_metadata mapping, or without
\* the field, or without any rect region, ends in "no annotations found": zero records
\* and none of the three error messages.
C3_NoAnnotationsFound ==
    (Parsed /\ Done
        /\ (EmptyMetadata(jsonDoc) \/ NoMetadataField(jsonDoc) \/ NoRectRegion(jsonDoc)))
    => NoAnnotationsOutcome

\* C3 amended: a parsed document with an empty _via_img_metadata mapping, or without
\* the field, or on which the walk raises no exception and meets no rect region, ends
\* in "no annotations found": zero records and none of the three error messages.
C3_NoAnnotationsFoundUnlessFault ==
    (Parsed /\ Done
        /\ (EmptyMetadata(jsonDoc) \/ NoMetadataField(jsonDoc)
                \/ (NoRectRegion(jsonDoc) /\ ~WalkFault)))
    => NoAnnotationsOutcome

C3_Witness ==
    /\ Parsed /\ Done
    /\ jsonDoc = Project(Meta(<<ImgInfo(<<JStr("a.jpg")>>, <<JList(<<Circle, Circle>>)>>)>>))
    /\ NoAnnotationsOutcome

IsErrorLine(line) ==
    \/ line \in {FileNotFoundLine, MalformedLine}
    \/ StartsAt(line, 1, "An unexpected error occurred: ")
ErrorLines(out) == {n \in 1..Len(out) : IsErrorLine(out[n])}

\* C4: a missing input path ends the run with the FileNotFound message carrying the
\* path and no records; text that is not valid JSON ends it with the MalformedInput
\* message carrying the path and no records; every other fault ends it with the
\* UnexpectedError message carrying the exception's message; a failed run prints
\* exactly one of the three messages.
C4_FailuresClassifiedByKind ==
    (IsAnn /\ Done) =>
        /\ fileState = "missing" =>
                stdout = <<"Error: File not found at " \o file_path>> /\ annotations = <<>>
        /\ fileState = "invalid" =>
                /\ stdout = <<"Error: Could not decode JSON from " \o file_path
                                \o ". Invalid JSON format.">>
                /\ annotations = <<>>
        /\ (exc # NoExc /\ fileState \notin {"missing", "invalid"}) =>
                stdout[Len(stdout)] = "An unexpected error occurred: " \o exc.msg
        /\ exc # NoExc => Cardinality(ErrorLines(stdout)) = 1
        /\ exc = NoExc => ErrorLines(stdout) = {}

C4_Witness ==
    /\ IsAnn /\ Done /\ fileState = "invalid"
    /\ exc.type = "JSONDecodeError"
    /\ Len(stdout) = 1 /\ stdout[1] = MalformedLine

\* C5: when the walk over images and regions raises, no record line is printed, not
\* even for the rect regions gathered before the fault: the run's only output is the
\* UnexpectedError message.
C5_AbortOnFault ==
    (IsAnn /\ WalkFault) =>
        /\ \A n \in 1..Len(stdout) : \A k \in 1..Len(annotations) :
                stdout[n] # RecordLine(annotations[k])
        /\ Done => stdout = <<"An unexpected error occurred: " \o exc.msg>>

C5_Witness ==
    /\ IsAnn /\ Done /\ WalkFault
    /\ Len(annotations) = 2
    /\ exc.line = 17
    /\ Len(stdout) = 1

\* the line C6 gives for a record
ClaimedRecordLine(ann) == "Filename: " \o Str(ann.filename) \o ", BBox: " \o ListStr(ann.bbox)
OnlyRecordLines ==
    /\ exc = NoExc /\ Len(annotations) >= 1
    /\ stdout = [n \in 1..Len(annotations) |-> ClaimedRecordLine(annotations[n])]
OnlyNoAnnotationsLine == exc = NoExc /\ annotations = <<>> /\ stdout = <<NoAnnotationsLine>>
OnlyErrorLine == exc # NoExc /\ Len(stdout) = 1 /\ IsErrorLine(stdout[1])
\* the header, then one indented line per record
HeaderAndRecordLines ==
    /\ exc = NoExc /\ Len(annotations) >= 1
    /\ stdout = <<HeaderLine>>
                    \o [n \in 1..Len(annotations) |-> "  " \o ClaimedRecordLine(annotations[n])]
\* the header, the lines of the records before the first whose filename stdout cannot
\* encode, then the UnexpectedError line
HeaderRecordsThenError ==
    /\ PrintFault
    /\ \E m \in 1..Len(annotations) :
        /\ ~Printable(annotations[m].filename)
        /\ \A n \in 1..(m - 1) : Printable(annotations[n].filename)
        /\ stdout = <<HeaderLine>>
                        \o [n \in 1..(m - 1) |-> "  " \o ClaimedRecordLine(annotations[n])]
                        \o <<"An unexpected error occurred: " \o exc.msg>>

\* C6 as stated: the output of a run is exactly one of: one record line per record
\* and nothing else; the single "no annotations found" line; a single error line.
C6_OutputForms == (IsAnn /\ Done) => (OnlyRecordLines \/ OnlyNoAnnotationsLine \/ OnlyErrorLine)

\* C6 amended: the output of a run is exactly one of: the line "Extracted
\* Annotations:" followed by one line per record, in record order, of the form
\* "  Filename: <filename-or-None>, BBox: [<x>, <y>, <width>, <height>]"; the single
\* "no annotations found" line; a single error line; or, when printing a record
\* raises, the header and the record lines printed before it followed by the
\* UnexpectedError line.
C6_OutputFormsWithHeader ==
    (IsAnn /\ Done) =>
        (HeaderAndRecordLines \/ OnlyNoAnnotationsLine \/ OnlyErrorLine \/ HeaderRecordsThenError)

C6_Witness ==
    /\ IsAnn /\ Done /\ exc = NoExc
    /\ stdout = <<"Extracted Annotations:", "  Filename: a.jpg, BBox: [1, 2, 3, 4]",
                  "  Filename: b.jpg, BBox: [5, 6, 7, 8]">>

(***************************************************************************)
(* Properties of extract_urls.py, checked under SpecUrls.                  *)
(***************************************************************************)
\* url is some text followed by exactly .jpg, .jpeg or .png
HasImageSuffix(url) ==
    \E n \in 0..Len(url) : SubSeq(url, n + 1, Len(url)) \in {".jpg", ".jpeg", ".png"}
HasOtherSuffix(url) ==
    \E n \in 0..Len(url) : SubSeq(url, n + 1, Len(url)) \in {".PNG", ".JPG", ".gif"}

\* C7: the lines printed are exactly the extracted values that end, compared case-
\* sensitively, in .jpg, .jpeg or .png, in document order with duplicates kept; a
\* value ending in .PNG, .JPG or .gif is never printed; the specification's example
\* page prints a.jpg only.
C7_SuffixFilter ==
    (IsUrl /\ pc \in {"for_url", "done"} /\ exc = NoExc) =>
        /\ stdout = SelectSeq(SubSeq(urls, 1, url_i - 1), HasImageSuffix)
        /\ \A n \in 1..Len(stdout) : ~HasOtherSuffix(stdout[n])
        /\ Done => url_i = Len(urls) + 1
        /\ (Done /\ htmlText = PageExample) => stdout = <<"a.jpg">>

C7_Witness ==
    /\ IsUrl /\ Done
    /\ urls = <<"a.jpg", "b.gif", "c.PNG">>
    /\ stdout = <<"a.jpg">>

\* The closing quote of the attribute that starts at i when the value is delimited by
\* the same quote character on both sides, 0 when no such attribute starts at i.
SameQuoteEnd(s, i) ==
    LET q == i + Len(AttrPrefix)
        ends == {e \in (q + 1)..Len(s) :
                    Ch(s, e) = Ch(s, q) /\ \A m \in (q + 1)..(e - 1) : Ch(s, m) # "\n"}
    IN  IF StartsAt(s, i, AttrPrefix) /\ q <= Len(s) /\ Ch(s, q) \in {"\"", "'"} /\ ends # {}
        THEN Min(ends)
        ELSE 0

RECURSIVE QuotedValuesFrom(_, _)
QuotedValuesFrom(s, i) ==
    IF i > Len(s) THEN <<>>
    ELSE IF SameQuoteEnd(s, i) = 0 THEN QuotedValuesFrom(s, i + 1)
    ELSE <<SubSeq(s, i + Len(AttrPrefix) + 1, SameQuoteEnd(s, i) - 1)>>
            \o QuotedValuesFrom(s, SameQuoteEnd(s, i) + 1)

\* C8: the pattern match yields, for every non-overlapping occurrence of
\* data-src="..." or data-src='...' in order of appearance, the shortest text between
\* the opening quote and the next quote of the same kind.
C8_SameQuoteDelimits ==
    (IsUrl /\ pc \in {"for_url", "done"} /\ exc = NoExc) => urls = QuotedValuesFrom(html, 1)

IsUrlErrorLine(line) == StartsAt(line, 1, "An error occurred: ")

\* C9: the error line is printed exactly when a fault occurs: a failed open or read
\* prints the single error line with the exception's message and no url; a run without
\* fault prints only urls and no error line, and nothing at all for a page without
\* data-src.
C9_ErrorLineIffFault ==
    (IsUrl /\ Done) =>
        /\ (exc # NoExc) <=> (\E n \in 1..Len(stdout) : IsUrlErrorLine(stdout[n]))
        /\ fileState # "ok" =>
                exc # NoExc /\ stdout = <<"An error occurred: " \o exc.msg>>
        /\ exc = NoExc => \A n \in 1..Len(stdout) : \E k \in 1..Len(urls) : stdout[n] = urls[k]
        /\ (fileState = "ok" /\ \A i \in 1..Len(htmlText) : ~StartsAt(htmlText, i, "data-src"))
                => stdout = <<>> /\ exc = NoExc

C9_Witness ==
    /\ IsUrl /\ Done /\ fileState = "undecodable"
    /\ exc.type = "UnicodeDecodeError"
    /\ stdout = <<"An error occurred: 'utf-8' codec can't decode byte 0xff in position 0: invalid start byte">>

(***************************************************************************)
(* Property of both scripts, checked under Spec.                           *)
(***************************************************************************)
\* C10: the input file is opened at most once, is open only during the read or parse
\* step, and is closed whenever a line has been printed and at termination, whether
\* the read succeeded or raised; when open() itself fails no handle is ever held.
C10_FileScopedToRead ==
    /\ opens <= 1
    /\ fileOpen => (opens = 1 /\ pc \in {"load", "read", "exit_with"})
    /\ (stdout # <<>> \/ Done \/ pc = "except") => ~fileOpen
    /\ fileState \in {"missing", "denied"} => (opens = 0 /\ ~fileOpen)
    /\ (Done /\ fileState \notin {"missing", "denied"}) => opens = 1

C10_Witness ==
    /\ Done /\ fileState = "undecodable"
    /\ opens = 1 /\ ~fileOpen
    /\ Len(stdout) = 1

====
